---- MODULE Spec2Model ----
(***************************************************************************)
(* MapComponent of mapbox-pinsoft-ui (src/src/app/map/map.component.ts):   *)
(* the map shell (initializeMap and its 'load' handler, the loadImage      *)
(* callbacks, ngOnDestroy) and the aircraft refresher                      *)
(* (startFetchingPlanes / fetchPlanes / delay).                            *)
(*                                                                         *)
(* JavaScript runs each handler to its next await without interleaving,    *)
(* so one action is one such run: a lifecycle hook, the map's 'load'       *)
(* handler, a loadImage callback, the continuation of fetchPlanes after    *)
(* the HTTP call settles, the continuation of the loop after the timer.    *)
(* Angular calls ngOnInit at most once and ngOnDestroy once, last.         *)
(***************************************************************************)
EXTENDS Integers, Sequences, FiniteSets

VARIABLES lifecycle, map, removeCalls, loaded, registered, images, uncaught,
          isFetching, pc, inFlight, elapsed, planes, last

vars == <<lifecycle, map, removeCalls, loaded, registered, images, uncaught,
          isFetching, pc, inFlight, elapsed, planes, last>>

(***************************************************************************)
(* Bounds of the model.                                                    *)
(***************************************************************************)
\* longest `ac` collection a response carries
MaxAc == 2
\* granularity of the clock that measures the delay
TickMs == 500

\* the argument of this.delay(1000)
DelayMs == 1000

(***************************************************************************)
(* JavaScript values carried by an aircraft record.                        *)
(***************************************************************************)
Num(n) == [t |-> "number", v |-> n]
Str(s) == [t |-> "string", s |-> s]
Undefined == [t |-> "undefined"]

\* the values JavaScript treats as false in `a || b`
Falsy(a) == a = Undefined \/ a = Num(0) \/ a = Str("")

\* a || b
Or(a, b) == IF Falsy(a) THEN b ELSE a

Tracks == {Undefined, Num(0), Num(90)}

\* a record the filter lets through
Tracked == [lat |-> Num(41), lon |-> Num(29), track |-> Num(90), flight |-> Str("THY1")]

\* aircraft records: one per way of failing the filter, and one per track
\* value on a record that passes it
Planes ==
  {[Tracked EXCEPT !.lat = Num(0)],
   [Tracked EXCEPT !.lon = Num(0)],
   [Tracked EXCEPT !.flight = Undefined]}
    \cup {[Tracked EXCEPT !.track = t] : t \in Tracks}

RECURSIVE SeqsUpTo(_, _)
SeqsUpTo(S, n) ==
  IF n = 0 THEN {<<>>}
  ELSE LET shorter == SeqsUpTo(S, n - 1)
       IN shorter \cup {Append(s, x) : s \in {q \in shorter : Len(q) = n - 1}, x \in S}

\* what the HTTP call settles to: a rejection, a body without `ac`, a body with `ac`
Responses ==
  {[kind |-> "error", ac |-> <<>>], [kind |-> "malformed", ac |-> <<>>]}
    \cup {[kind |-> "ok", ac |-> a] : a \in SeqsUpTo(Planes, MaxAc)}

(***************************************************************************)
(* fetchPlanes: the filter and the map of the response's `ac`.             *)
(***************************************************************************)
\* variant: the filter without its test of lon
planeFilterNoLon(plane) ==
  plane.lat # Num(0) /\ plane.flight # Undefined

\* the callback of response.ac.filter
planeFilter(plane) ==
  plane.lat # Num(0) /\ plane.lon # Num(0) /\ plane.flight # Undefined

\* variant: the heading without its `|| 0`
planeFeatureNoDefault(plane) ==
  [coordinates |-> <<plane.lon, plane.lat>>,
   heading |-> plane.track,
   flight |-> plane.flight]

\* the callback of .map: the point of a record
planeFeature(plane) ==
  [coordinates |-> <<plane.lon, plane.lat>>,
   heading |-> Or(plane.track, Num(0)),
   flight |-> plane.flight]

RECURSIVE filter(_)
filter(ac) ==
  IF ac = <<>> THEN <<>>
  ELSE IF planeFilter(Head(ac)) THEN <<Head(ac)>> \o filter(Tail(ac))
       ELSE filter(Tail(ac))

features(ac) == [i \in 1..Len(filter(ac)) |-> planeFeature(filter(ac)[i])]

(***************************************************************************)
(* The 'planes' GeoJSON source.                                            *)
(***************************************************************************)
NoSource == [registered |-> FALSE, features |-> <<>>]

\* variant: an empty collection is not written
setDataKeepsOnEmpty(source, geojson) ==
  [registered |-> TRUE,
   features |-> IF geojson = <<>> THEN source.features ELSE geojson]

\* source.setData(geojson): full replacement
setData(source, geojson) == [registered |-> TRUE, features |-> geojson]

\* this.map?.getSource('planes'): the source once the load handler added it;
\* on a removed map the library's answer is not fixed by this repository
getSource(m, source) ==
  IF m = "live"
  THEN IF source.registered THEN {"source"} ELSE {"undefined"}
  ELSE {"undefined", "throw"} \cup (IF source.registered THEN {"source"} ELSE {})

\* `last` is the record of the cycle that completed last: how the HTTP call
\* settled, the `ac` it carried, what getSource answered, and the flag then
NoCycle == [status |-> "none", ac |-> <<>>, get |-> "none", active |-> FALSE]

(***************************************************************************)
(* What the 'load' handler registers, in the order of its calls.           *)
(***************************************************************************)
SetupOrder ==
  << "loadImage:airport-icon", "source:airports", "layer:airport", "popup",
     "on:mousemove:airport", "on:mouseleave:airport",
     "loadImage:plane-icon", "source:planes", "layer:planes",
     "on:mousemove:planes", "on:mouseleave:planes",
     "source:route", "layer:route", "source:countries",
     "layer:countries-join" >>

Icons == {"airport-icon", "plane-icon"}

\* the loadImage call of an icon, as SetupOrder names it
loadImage(ic) ==
  IF ic = "airport-icon" THEN "loadImage:airport-icon" ELSE "loadImage:plane-icon"

\* position of an item in SetupOrder
Position(item) == CHOOSE i \in 1..Len(SetupOrder) : SetupOrder[i] = item

\* the sources, layers, popup and listeners: every call but the loadImage calls
Registrations ==
  {SetupOrder[i] : i \in {j \in 1..Len(SetupOrder) :
                            SetupOrder[j] \notin {loadImage(ic) : ic \in Icons}}}

\* the registrations that come after the loadImage call of an icon
Following(ic) ==
  {r \in Registrations : Position(r) > Position(loadImage(ic))}

\* variant: the registrations are made inside the airport icon's callback,
\* none by the handler itself
loadHandlerRegistersNested == {}

\* what the 'load' handler has registered when it returns: all of it, the
\* loadImage callbacks run later
loadHandlerRegisters == Registrations

Init ==
  /\ lifecycle = "created"
  /\ map = "undefined"
  /\ removeCalls = 0
  /\ loaded = FALSE
  /\ registered = {}
  /\ images = [ic \in Icons |-> "idle"]
  /\ uncaught = {}
  /\ isFetching = FALSE
  /\ pc = "idle"
  /\ inFlight = 0
  /\ elapsed = 0
  /\ planes = NoSource
  /\ last = NoCycle

\* ngOnInit: initializeMap(), then startFetchingPlanes() up to its first await
\* (the HTTP request of the first fetchPlanes is issued)
NgOnInit ==
  /\ lifecycle = "created"
  /\ lifecycle' = "initialized"
  /\ map' = "live"
  /\ isFetching' = TRUE
  /\ pc' = "fetch"
  /\ inFlight' = inFlight + 1
  /\ UNCHANGED <<removeCalls, loaded, registered, images, uncaught, elapsed,
                 planes, last>>

\* variant: the flag is left set
NgOnDestroyKeepsFlag ==
  /\ lifecycle \in {"created", "initialized"}
  /\ lifecycle' = "destroyed"
  /\ IF map # "undefined"
     THEN map' = "removed" /\ removeCalls' = removeCalls + 1
     ELSE UNCHANGED <<map, removeCalls>>
  /\ UNCHANGED <<isFetching, loaded, registered, images, uncaught, pc, inFlight,
                 elapsed, planes, last>>

\* variant: the map is not removed
NgOnDestroyNoRemove ==
  /\ lifecycle \in {"created", "initialized"}
  /\ lifecycle' = "destroyed"
  /\ isFetching' = FALSE
  /\ UNCHANGED <<map, removeCalls, loaded, registered, images, uncaught, pc,
                 inFlight, elapsed, planes, last>>

\* ngOnDestroy: map.remove() when a map was created, then the flag is cleared
NgOnDestroy ==
  /\ lifecycle \in {"created", "initialized"}
  /\ lifecycle' = "destroyed"
  /\ IF map # "undefined"
     THEN map' = "removed" /\ removeCalls' = removeCalls + 1
     ELSE UNCHANGED <<map, removeCalls>>
  /\ isFetching' = FALSE
  /\ UNCHANGED <<loaded, registered, images, uncaught, pc, inFlight, elapsed,
                 planes, last>>

\* the handler of the map's 'load' event: starts both image loads and
\* registers the sources, layers, popup and listeners; 'planes' starts empty
MapLoad ==
  /\ map = "live"
  /\ ~loaded
  /\ loaded' = TRUE
  /\ images' = [ic \in Icons |-> "loading"]
  /\ registered' = loadHandlerRegisters
  /\ planes' = [registered |-> TRUE, features |-> <<>>]
  /\ UNCHANGED <<lifecycle, map, removeCalls, uncaught, isFetching, pc,
                 inFlight, elapsed, last>>

\* the callback of loadImage: `if (error) throw error`, else addImage; addImage
\* on a removed map may throw inside the library
loadImageCallback(ic, error) ==
  /\ images[ic] = "loading"
  /\ IF error
     THEN images' = [images EXCEPT ![ic] = "error"] /\ uncaught' = uncaught \cup {ic}
     ELSE IF map = "live"
          THEN images' = [images EXCEPT ![ic] = "added"] /\ UNCHANGED uncaught
          ELSE \/ images' = [images EXCEPT ![ic] = "added"] /\ UNCHANGED uncaught
               \/ /\ images' = [images EXCEPT ![ic] = "addImageThrew"]
                  /\ uncaught' = uncaught \cup {"addImage"}
  /\ UNCHANGED <<lifecycle, map, removeCalls, loaded, registered, isFetching,
                 pc, inFlight, elapsed, planes, last>>

\* variant: the catch block empties the source
fetchPlanesClearsOnError(response) ==
  /\ pc = "fetch"
  /\ inFlight' = inFlight - 1
  /\ IF response.kind = "ok"
     THEN \E got \in getSource(map, planes) :
            /\ last' = [status |-> "ok", ac |-> response.ac, get |-> got,
                        active |-> isFetching]
            /\ planes' = IF got = "source"
                         THEN setData(planes, features(response.ac))
                         ELSE planes
     ELSE /\ last' = [status |-> response.kind, ac |-> <<>>, get |-> "none",
                      active |-> isFetching]
          /\ planes' = [planes EXCEPT !.features = <<>>]
  /\ pc' = "delay"
  /\ elapsed' = 0
  /\ UNCHANGED <<lifecycle, map, removeCalls, loaded, registered, images,
                 uncaught, isFetching>>

\* variant: no try/catch, a failure rejects fetchPlanes and with it the loop
fetchPlanesNoCatch(response) ==
  /\ pc = "fetch"
  /\ inFlight' = inFlight - 1
  /\ IF response.kind = "ok"
     THEN \E got \in getSource(map, planes) :
            /\ last' = [status |-> "ok", ac |-> response.ac, get |-> got,
                        active |-> isFetching]
            /\ planes' = IF got = "source"
                         THEN setData(planes, features(response.ac))
                         ELSE planes
            /\ pc' = "delay"
            /\ UNCHANGED uncaught
     ELSE /\ last' = [status |-> response.kind, ac |-> <<>>, get |-> "none",
                      active |-> isFetching]
          /\ pc' = "done"
          /\ uncaught' = uncaught \cup {"fetchPlanes"}
          /\ UNCHANGED planes
  /\ elapsed' = 0
  /\ UNCHANGED <<lifecycle, map, removeCalls, loaded, registered, images,
                 isFetching>>

\* variant: the publish is skipped once the map is removed
fetchPlanesGuarded(response) ==
  /\ pc = "fetch"
  /\ inFlight' = inFlight - 1
  /\ IF response.kind = "ok"
     THEN \E got \in (IF map = "live" THEN getSource(map, planes) ELSE {"none"}) :
            /\ last' = [status |-> "ok", ac |-> response.ac, get |-> got,
                        active |-> isFetching]
            /\ planes' = IF got = "source"
                         THEN setData(planes, features(response.ac))
                         ELSE planes
     ELSE /\ last' = [status |-> response.kind, ac |-> <<>>, get |-> "none",
                      active |-> isFetching]
          /\ UNCHANGED planes
  /\ pc' = "delay"
  /\ elapsed' = 0
  /\ UNCHANGED <<lifecycle, map, removeCalls, loaded, registered, images,
                 uncaught, isFetching>>

\* fetchPlanes after `await this.http.get(...)` settles, to its return, and the
\* loop's step into delay(1000). A rejection and a body without `ac` end in the
\* catch block; a thrown getSource on a removed map ends there too.
fetchPlanes(response) ==
  /\ pc = "fetch"
  /\ inFlight' = inFlight - 1
  /\ IF response.kind = "ok"
     THEN \E got \in getSource(map, planes) :
            /\ last' = [status |-> "ok", ac |-> response.ac, get |-> got,
                        active |-> isFetching]
            /\ planes' = IF got = "source"
                         THEN setData(planes, features(response.ac))
                         ELSE planes
     ELSE /\ last' = [status |-> response.kind, ac |-> <<>>, get |-> "none",
                      active |-> isFetching]
          /\ UNCHANGED planes
  /\ pc' = "delay"
  /\ elapsed' = 0
  /\ UNCHANGED <<lifecycle, map, removeCalls, loaded, registered, images,
                 uncaught, isFetching>>

\* time passes while the loop is suspended in delay(1000); the locals of the
\* cycle before it (response, source) are by then out of scope, how it ended
\* stays on record
Tick ==
  /\ pc = "delay"
  /\ elapsed < DelayMs
  /\ elapsed' = elapsed + TickMs
  /\ last' = [last EXCEPT !.ac = <<>>, !.get = "none"]
  /\ UNCHANGED <<lifecycle, map, removeCalls, loaded, registered, images,
                 uncaught, isFetching, pc, inFlight, planes>>

\* variant: the timer does not wait
timerFiresEarly(ms) == TRUE

\* setTimeout(resolve, ms) runs its callback once ms have passed
timerFires(ms) == elapsed >= ms

\* the loop after `await this.delay(1000)`: the while test, then either the
\* request of the next fetchPlanes or the end of startFetchingPlanes
startFetchingPlanes ==
  /\ pc = "delay"
  /\ timerFires(DelayMs)
  /\ IF isFetching
     THEN pc' = "fetch" /\ inFlight' = inFlight + 1
     ELSE pc' = "done" /\ UNCHANGED inFlight
  /\ elapsed' = 0
  /\ UNCHANGED <<lifecycle, map, removeCalls, loaded, registered, images,
                 uncaught, isFetching, planes, last>>

Next ==
  \/ NgOnInit
  \/ NgOnDestroy
  \/ MapLoad
  \/ \E ic \in Icons, error \in BOOLEAN : loadImageCallback(ic, error)
  \/ \E response \in Responses : fetchPlanes(response)
  \/ Tick
  \/ startFetchingPlanes

Spec == Init /\ [][Next]_vars

\* setTimeout runs its callback: the clock advances and the loop resumes after
\* the delay. Nothing obliges the HTTP call, the map or Angular to act.
FairSpec ==
  Init /\ [][Next]_vars /\ WF_vars(Tick) /\ WF_vars(startFetchingPlanes)

(***************************************************************************)
(* The properties, stated on the records of a response and not through     *)
(* the operators above.                                                    *)
(***************************************************************************)
Excluded(r) == r.lat = Num(0) \/ r.lon = Num(0) \/ r.flight = Undefined

Passing(ac) == {i \in 1..Len(ac) : ~Excluded(ac[i])}

\* the index in ac of the k-th record that is not excluded
KthPassing(ac, k) ==
  CHOOSE i \in Passing(ac) : Cardinality({j \in Passing(ac) : j <= i}) = k

ExpectedHeading(r) ==
  IF r.track = Undefined \/ r.track = Num(0) THEN Num(0) ELSE r.track

\* a cycle has just completed and its response is on record
CycleDone == pc = "delay" /\ elapsed = 0

Published == CycleDone /\ last.status = "ok" /\ last.get = "source"

Failed == {"error", "malformed"}

\* the step in which fetchPlanes resumes after the HTTP call and returns
Completes == pc = "fetch" /\ pc' = "delay"

\* C1: a record with lat = 0, lon = 0 or an undefined flight leaves no point in
\* the collection fetchPlanes publishes: no published point has its
\* coordinates and flight, and no point of the source has a zero coordinate
\* or an undefined flight.
C1_ExcludedNotPublished ==
  /\ \A j \in 1..Len(planes.features) :
       /\ planes.features[j].coordinates[1] # Num(0)
       /\ planes.features[j].coordinates[2] # Num(0)
       /\ planes.features[j].flight # Undefined
  /\ Published =>
       \A i \in 1..Len(last.ac) :
         Excluded(last.ac[i]) =>
           \A j \in 1..Len(planes.features) :
             ~ /\ planes.features[j].coordinates = <<last.ac[i].lon, last.ac[i].lat>>
               /\ planes.features[j].flight = last.ac[i].flight

C1_Witness ==
  /\ Published
  /\ \E i \in 1..Len(last.ac) : Excluded(last.ac[i])
  /\ Len(planes.features) > 0

\* C2: the k-th published point comes from the k-th record that passes the
\* filter: heading is its track, or 0 when the track is absent or falsy,
\* coordinates are [lon, lat], flight is its flight.
C2_PointOfPassingRecord ==
  Published =>
    /\ Len(planes.features) = Cardinality(Passing(last.ac))
    /\ \A k \in 1..Len(planes.features) :
         LET r == last.ac[KthPassing(last.ac, k)]
             f == planes.features[k]
         IN /\ f.heading = ExpectedHeading(r)
            /\ f.coordinates = <<r.lon, r.lat>>
            /\ f.flight = r.flight

C2_Witness ==
  /\ Published
  /\ \E i, j \in Passing(last.ac) :
       last.ac[i].track = Undefined /\ last.ac[j].track = Num(90)
  /\ Len(planes.features) = 2

ExpectedPoints(ac) ==
  [k \in 1..Cardinality(Passing(ac)) |->
     LET r == ac[KthPassing(ac, k)]
     IN [coordinates |-> <<r.lon, r.lat>>,
         heading |-> ExpectedHeading(r),
         flight |-> r.flight]]

\* C3 as claimed: after any cycle whose fetch succeeds, the 'planes' source
\* holds exactly the points of that cycle's response.
C3_Original ==
  (CycleDone /\ last.status = "ok") =>
    (planes.registered /\ planes.features = ExpectedPoints(last.ac))

\* C3: after any cycle whose fetch succeeds and whose getSource('planes')
\* returns the source, the source holds exactly the points of that cycle's
\* response, empty when it yields none, and no point of an earlier cycle.
C3_ReplacesWhenSourceFound ==
  Published =>
    (planes.registered /\ planes.features = ExpectedPoints(last.ac))

C3_Witness ==
  /\ Published
  /\ last.ac # <<>>
  /\ planes.features = <<>>

\* C4: a cycle whose fetch fails (rejection, or a body without `ac`) leaves
\* the 'planes' source as it was.
C4_FailedFetchKeepsData ==
  [][(Completes /\ last'.status \in Failed) => planes' = planes]_vars

C4_Witness ==
  /\ CycleDone
  /\ last.status \in Failed
  /\ planes.features # <<>>

\* C5 as claimed: whenever fetchPlanes fails while the flag is set, the loop's
\* next step after the delay starts a fetch cycle.
C5_Original ==
  [][(pc = "delay" /\ last.status \in Failed /\ last.active /\ pc' # "delay")
       => pc' = "fetch"]_vars

\* C5: a failure of fetchPlanes is caught inside the cycle, nothing is thrown
\* out of startFetchingPlanes and the loop goes into its delay; after the
\* delay a next request is issued, unless ngOnDestroy has cleared the flag
\* by then.
C5_FailureDoesNotHaltLoop ==
  /\ []("fetchPlanes" \notin uncaught)
  /\ [][(pc = "fetch" /\ pc' # "fetch" /\ last'.status \in Failed)
          => pc' = "delay"]_vars
  /\ [][(pc = "delay" /\ last.status \in Failed /\ isFetching /\ pc' # "delay")
          => (pc' = "fetch" /\ inFlight' = 1)]_vars
  /\ ((pc = "delay" /\ last.status \in Failed /\ isFetching)
        ~> (pc = "fetch" \/ ~isFetching))

C5_Witness ==
  /\ pc = "fetch"
  /\ last.status \in Failed
  /\ isFetching
  /\ inFlight = 1

\* C6: once ngOnDestroy has run no request is issued, and the loop has exited
\* only if ngOnDestroy has cleared the flag.
C6_NoRequestAfterDestroy ==
  /\ [][lifecycle = "destroyed" => inFlight' <= inFlight]_vars
  /\ [](pc = "done" => (lifecycle = "destroyed" /\ ~isFetching))

C6_Witness ==
  /\ pc = "done"
  /\ lifecycle = "destroyed"
  /\ last.status # "none"

C9_PublishNotGuarded ==
  [][(Completes /\ map = "removed" /\ last'.status = "ok")
       => last'.get \in {"source", "undefined", "throw"}]_vars

C9_Witness ==
  /\ CycleDone
  /\ lifecycle = "destroyed"
  /\ map = "removed"
  /\ last.status = "ok"
  /\ last.get # "none"
  /\ ~last.active

\* C10: at most one request is in flight; a request is issued by ngOnInit or,
\* with none in flight, by the loop after the full delay; once the 'planes'
\* source is registered only the completion of fetchPlanes changes its data.
C10_SingleControlFlow ==
  /\ [](inFlight <= 1)
  /\ [][inFlight' > inFlight =>
          \/ lifecycle = "created"
          \/ (pc = "delay" /\ inFlight = 0 /\ elapsed >= DelayMs)]_vars
  /\ [][(planes.registered /\ planes' # planes) => Completes]_vars

C10_Witness ==
  /\ pc = "fetch"
  /\ inFlight = 1
  /\ last.status = "ok"
  /\ planes.features # <<>>
====
